---- MODULE Spec2Model ----
(***************************************************************************)
(* Model of create_summary.py: the first-letter memorization summary.      *)
(*                                                                         *)
(* A Python str is modelled as a sequence of one-character strings.  The   *)
(* regular expressions of the source are modelled by what they match:      *)
(* every quantifier in them is followed by a character class disjoint from *)
(* its own, so the greedy match from a given start is the only match, and  *)
(* each pattern is a chain of maximal runs (Span).                         *)
(***************************************************************************)
EXTENDS Integers, Sequences, FiniteSets

VARIABLES
    fn,             \* name of the function a direct call has applied ("" before)
    arg,            \* the argument of the direct call
    ret,            \* its return value
    pc,             \* position in get_first_letters
    text,           \* get_first_letters: parameter text
    remove_verses,  \* get_first_letters: parameter remove_verses
    remove_refs,    \* get_first_letters: parameter remove_refs
    merged,         \* get_first_letters: local merged
    sentences,      \* get_first_letters: local sentences
    idx,            \* get_first_letters: index of the loop over sentences
    sentence,       \* get_first_letters: loop variable sentence
    result_lines,   \* get_first_letters: local result_lines
    output          \* get_first_letters: the returned string

vars == <<fn, arg, ret, pc, text, remove_verses, remove_refs, merged,
          sentences, idx, sentence, result_lines, output>>

-----------------------------------------------------------------------------
(* Character classes of Python's re on the model's alphabet.               *)

\* \s
Space == {" ", "\n"}

\* \d
Digit == {"0", "1", "2", "3", "4", "5", "6", "7", "8", "9"}

LowerSeq == <<"a", "b", "c", "d", "e", "f", "g", "h", "i", "j", "k", "l", "m",
              "n", "o", "p", "q", "r", "s", "t", "u", "v", "w", "x", "y", "z">>

UpperSeq == <<"A", "B", "C", "D", "E", "F", "G", "H", "I", "J", "K", "L", "M",
              "N", "O", "P", "Q", "R", "S", "T", "U", "V", "W", "X", "Y", "Z">>

\* [A-Za-z...] of REFERENCE_RE (the accented range is outside the alphabet)
RefLetter == {LowerSeq[i] : i \in 1..26} \cup {UpperSeq[i] : i \in 1..26}

\* \w
WordChar == RefLetter \cup Digit \cup {"_"}

\* [.!?] of SENTENCE_SPLIT_RE's lookbehind
Terminal == {".", "!", "?"}

\* str.lower() on one character
ToLower(c) ==
    IF \E i \in 1..26 : UpperSeq[i] = c
    THEN LowerSeq[CHOOSE i \in 1..26 : UpperSeq[i] = c]
    ELSE c

\* str.lower()
Lower(s) == [i \in 1..Len(s) |-> ToLower(s[i])]

\* length of the maximal run of characters of class C in s from position i
RECURSIVE Span(_, _, _)
Span(s, i, C) ==
    IF i > Len(s) \/ s[i] \notin C THEN 0 ELSE 1 + Span(s, i + 1, C)

\* length of the maximal run of characters outside class C in s from position i
RECURSIVE SpanNot(_, _, _)
SpanNot(s, i, C) ==
    IF i > Len(s) \/ s[i] \in C THEN 0 ELSE 1 + SpanNot(s, i + 1, C)

\* s[i-1:] of Python: the suffix of s from position i
From(s, i) == SubSeq(s, i, Len(s))

\* str.strip()
Strip(s) ==
    LET lead == Span(s, 1, Space)
        rest == From(s, lead + 1)
        keep == {i \in 1..Len(rest) : rest[i] \notin Space}
    IN  IF keep = {} THEN <<>>
        ELSE SubSeq(rest, 1, CHOOSE i \in keep : \A j \in keep : j <= i)

\* str.startswith
StartsWith(s, p) == Len(s) >= Len(p) /\ SubSeq(s, 1, Len(p)) = p

-----------------------------------------------------------------------------
(* first_letter_or_digraph                                                 *)

HUNGARIAN_DIGRAPHS ==
    {<<"c", "s">>, <<"g", "y">>, <<"l", "y">>, <<"n", "y">>,
     <<"s", "z">>, <<"t", "y">>, <<"z", "s">>}

\* a plausible slip: the result is taken from the lower-cased copy
first_letter_or_digraph_lowered(word) ==
    IF word = <<>> THEN <<>>
    ELSE IF \E d \in HUNGARIAN_DIGRAPHS : StartsWith(Lower(word), d)
         THEN SubSeq(Lower(word), 1, 2)
         ELSE <<ToLower(word[1])>>

first_letter_or_digraph(word) ==
    IF word = <<>> THEN <<>>
    ELSE LET word_lower == Lower(word)
         IN  IF \E digraph \in HUNGARIAN_DIGRAPHS : StartsWith(word_lower, digraph)
             THEN SubSeq(word, 1, 2)
             ELSE <<word[1]>>

-----------------------------------------------------------------------------
(* remove_verse_numbers                                                    *)

\* VERSE_NUMBER_RE.match(line): the number of characters the pattern
\* ^\s*\d+(?::\d+)?[.\s]* consumes at the start of line, or -1 (no match)
VERSE_NUMBER_RE(line) ==
    LET ws     == Span(line, 1, Space)
        num    == Span(line, ws + 1, Digit)
        p      == ws + num
        second == IF p + 1 <= Len(line) /\ line[p + 1] = ":"
                  THEN Span(line, p + 2, Digit) ELSE 0
        q      == IF second > 0 THEN p + 1 + second ELSE p
        tail   == Span(line, q + 1, {"."} \cup Space)
    IN  IF num = 0 THEN -1 ELSE q + tail

\* VERSE_NUMBER_RE.sub("", line): ^ anchors the only match at the start
VerseNumberSub(line) ==
    IF VERSE_NUMBER_RE(line) < 0 THEN line ELSE From(line, VERSE_NUMBER_RE(line) + 1)

remove_verse_numbers(line) == Strip(VerseNumberSub(line))

-----------------------------------------------------------------------------
(* remove_references                                                       *)

\* REFERENCE_RE matched at position i of line: the position after the match
\* of \s*[A-Za-z...]+\s+\d+\s*,\s*\d+\.?\s*, or 0 (no match at i)
REFERENCE_RE(line, i) ==
    LET a     == i + Span(line, i, Space)
        nb    == Span(line, a, RefLetter)
        b     == a + nb
        nc    == Span(line, b, Space)
        c     == b + nc
        nd    == Span(line, c, Digit)
        d     == c + nd
        e     == d + Span(line, d, Space)
        comma == e <= Len(line) /\ line[e] = ","
        f     == e + 1 + Span(line, e + 1, Space)
        ng    == Span(line, f, Digit)
        g     == f + ng
        h     == IF g <= Len(line) /\ line[g] = "." THEN g + 1 ELSE g
    IN  IF nb > 0 /\ nc > 0 /\ nd > 0 /\ comma /\ ng > 0
        THEN h + Span(line, h, Space)
        ELSE 0

\* REFERENCE_RE.sub(" ", line) from position pos on: leftmost matches,
\* non-overlapping, each replaced by one space
RECURSIVE ReferenceSub(_, _)
ReferenceSub(line, pos) ==
    IF pos > Len(line) THEN <<>>
    ELSE IF REFERENCE_RE(line, pos) > 0
         THEN <<" ">> \o ReferenceSub(line, REFERENCE_RE(line, pos))
         ELSE <<line[pos]>> \o ReferenceSub(line, pos + 1)

\* re.sub(r"\s+", " ", line) from position pos on
RECURSIVE CollapseSpace(_, _)
CollapseSpace(line, pos) ==
    IF pos > Len(line) THEN <<>>
    ELSE IF line[pos] \in Space
         THEN <<" ">> \o CollapseSpace(line, pos + Span(line, pos, Space))
         ELSE <<line[pos]>> \o CollapseSpace(line, pos + 1)

remove_references(line) == Strip(CollapseSpace(ReferenceSub(line, 1), 1))

-----------------------------------------------------------------------------
(* _first_letters_for_line                                                 *)

\* the end (position after) of a word token \w+(?:-\w+)* whose first run of
\* word characters ends before position p
RECURSIVE WordTokenEnd(_, _)
WordTokenEnd(line, p) ==
    IF p + 1 <= Len(line) /\ line[p] = "-" /\ line[p + 1] \in WordChar
    THEN WordTokenEnd(line, p + 1 + Span(line, p + 1, WordChar))
    ELSE p

\* re.findall(r"\w+(?:-\w+)*|[^\w\s]+", line) from position pos on
RECURSIVE FindTokens(_, _)
FindTokens(line, pos) ==
    IF pos > Len(line) THEN <<>>
    ELSE IF line[pos] \in WordChar
         THEN LET e == WordTokenEnd(line, pos + Span(line, pos, WordChar))
              IN  <<SubSeq(line, pos, e - 1)>> \o FindTokens(line, e)
         ELSE IF line[pos] \notin Space
              THEN LET e == pos + SpanNot(line, pos, WordChar \cup Space)
                   IN  <<SubSeq(line, pos, e - 1)>> \o FindTokens(line, e)
              ELSE FindTokens(line, pos + 1)

\* token.split("-"): cur is the segment being read
RECURSIVE SplitHyphen(_, _, _)
SplitHyphen(token, pos, cur) ==
    IF pos > Len(token) THEN <<cur>>
    ELSE IF token[pos] = "-"
         THEN <<cur>> \o SplitHyphen(token, pos + 1, <<>>)
         ELSE SplitHyphen(token, pos + 1, Append(cur, token[pos]))

\* sep.join(items)
RECURSIVE Join(_, _)
Join(sep, items) ==
    IF items = <<>> THEN <<>>
    ELSE IF Len(items) = 1 THEN items[1]
         ELSE items[1] \o sep \o Join(sep, Tail(items))

\* a plausible slip: the token is abbreviated as one word, hyphens ignored
FirstLettersOfTokenUnsplit(token) == first_letter_or_digraph(token)

\* lines 56-60: the first letters of the segments of a word token
FirstLettersOfToken(token) ==
    LET segments      == SplitHyphen(token, 1, <<>>)
        first_letters == [i \in 1..Len(SelectSeq(segments, LAMBDA seg : seg # <<>>)) |->
                             first_letter_or_digraph(
                                 SelectSeq(segments, LAMBDA seg : seg # <<>>)[i])]
    IN  Join(<<"-">>, first_letters)

\* lines 53-62: parts
Parts(tokens) ==
    [i \in 1..Len(tokens) |->
        IF tokens[i][1] \in WordChar THEN FirstLettersOfToken(tokens[i]) ELSE tokens[i]]

no_space_before == <<".", "!", "?", ",">>

\* p in no_space_before: Python's substring test on str
InStr(p, s) == \E i \in 0..(Len(s) - Len(p)) : SubSeq(s, i + 1, i + Len(p)) = p

\* a plausible slip: no space is put between any two parts
RECURSIVE JoinPartsNoSpace(_, _)
JoinPartsNoSpace(parts, i) ==
    IF i > Len(parts) THEN <<>> ELSE parts[i] \o JoinPartsNoSpace(parts, i + 1)

\* lines 64-69: out_parts joined
RECURSIVE JoinParts(_, _)
JoinParts(parts, i) ==
    IF i > Len(parts) THEN <<>>
    ELSE (IF i > 1 /\ ~InStr(parts[i], no_space_before) THEN <<" ">> ELSE <<>>)
         \o parts[i] \o JoinParts(parts, i + 1)

first_letters_for_line(line) == JoinParts(Parts(FindTokens(line, 1)), 1)

-----------------------------------------------------------------------------
(* get_first_letters                                                       *)

\* a plausible slip: the line break and its surrounding whitespace are
\* deleted instead of replaced by a space
RECURSIVE MergeLinesNoSpace(_, _)
MergeLinesNoSpace(s, pos) ==
    IF pos > Len(s) THEN <<>>
    ELSE IF s[pos] \in Space
            /\ \E k \in pos..(pos + Span(s, pos, Space) - 1) : s[k] = "\n"
         THEN MergeLinesNoSpace(s, pos + Span(s, pos, Space))
         ELSE <<s[pos]>> \o MergeLinesNoSpace(s, pos + 1)

\* re.sub(r"\s*\n\s*", " ", s) from position pos on: the pattern matches at
\* pos exactly when the whitespace run from pos holds a line break, and then
\* it matches the whole run
RECURSIVE MergeLines(_, _)
MergeLines(s, pos) ==
    IF pos > Len(s) THEN <<>>
    ELSE IF s[pos] \in Space
            /\ \E k \in pos..(pos + Span(s, pos, Space) - 1) : s[k] = "\n"
         THEN <<" ">> \o MergeLines(s, pos + Span(s, pos, Space))
         ELSE <<s[pos]>> \o MergeLines(s, pos + 1)

\* SENTENCE_SPLIT_RE.split(s) from position pos on, cur the segment being
\* read: (?<=[.!?])\s+ matches a whitespace run that follows . ! or ?
RECURSIVE SENTENCE_SPLIT_RE(_, _, _)
SENTENCE_SPLIT_RE(s, pos, cur) ==
    IF pos > Len(s) THEN <<cur>>
    ELSE IF pos > 1 /\ s[pos - 1] \in Terminal /\ s[pos] \in Space
         THEN <<cur>> \o SENTENCE_SPLIT_RE(s, pos + Span(s, pos, Space), <<>>)
         ELSE SENTENCE_SPLIT_RE(s, pos + 1, Append(cur, s[pos]))

-----------------------------------------------------------------------------
(* Bounded inputs                                                          *)

\* all sequences over S of length at most n
RECURSIVE SeqsUpTo(_, _)
SeqsUpTo(S, n) ==
    IF n = 0 THEN {<<>>}
    ELSE LET shorter == SeqsUpTo(S, n - 1)
         IN  shorter \cup {Append(s, c) : s \in {t \in shorter : Len(t) = n - 1}, c \in S}

\* the concatenation of a sequence of strings
RECURSIVE Flatten(_)
Flatten(ps) == IF ps = <<>> THEN <<>> ELSE Head(ps) \o Flatten(Tail(ps))

MaxWordLen == 3

WordAlphabet == {"a", "c", "g", "l", "n", "s", "t", "y", "z", "C", "S", "Y", "Z"}

\* arguments of first_letter_or_digraph
Words == SeqsUpTo(WordAlphabet, MaxWordLen)

MaxVerseLen == 6

VerseAlphabet == {"a", "1", " ", ".", ":", ";"}

\* arguments of remove_verse_numbers
VerseLines == SeqsUpTo(VerseAlphabet, MaxVerseLen)

\* prose that introduces a citation list, with its closing punctuation
RefProse == {<<"a">>, <<"a", ".">>, <<"a", ",">>, <<"a", ":">>}

\* 'Book chapter,verse', the same with a verse range, 'Book number'
BookItems ==
    {<<"J", "n", " ", "1", ",", "2">>,
     <<"J", "n", " ", "1", ",", "2", "-", "3">>,
     <<"J", "n", " ", "5">>}

\* a continuation item without a book: 'chapter,verse'
ContinuationItems == {<<"3", ",", "4">>}

MaxItems == 3

\* citation lists: a first item with a book, then up to MaxItems - 1 more
CitationLists ==
    {<<b>> \o rest : b \in BookItems,
                     rest \in SeqsUpTo(BookItems \cup ContinuationItems, MaxItems - 1)}

\* what joins the items of a list, and what may follow the list
RefSeps == {<<";", " ">>, <<" ">>}

RefTails == {<<>>, <<" ", "b">>}

MaxRefLen == 4

RefAlphabet == {"a", " ", "1", ",", "."}

\* arguments of remove_references
RefLines ==
    {p \o <<" ">> \o Join(sep, items) \o t :
        p \in RefProse, sep \in RefSeps, items \in CitationLists, t \in RefTails}
    \cup SeqsUpTo(RefAlphabet, MaxRefLen)

MaxAbbrevLen == 4

AbbrevAlphabet == {"a", "s", "z", "-", " ", ".", ",", "!", "?"}

MaxSegments == 3

HyphenWords == {<<"a">>, <<"s", "z">>, <<"z", "s", "a">>}

\* arguments of _first_letters_for_line
AbbrevLines ==
    SeqsUpTo(AbbrevAlphabet, MaxAbbrevLen)
    \cup {Join(<<"-">>, ws) : ws \in SeqsUpTo(HyphenWords, MaxSegments)}

MaxPieces == 4

\* what the texts given to get_first_letters are made of: a word, white
\* space, sentence and clause punctuation, a verse number, a pause marker
\* and a citation
TextPieces ==
    {<<"s", "z">>, <<" ">>, <<"\n">>, <<".">>, <<",">>, <<"1">>,
     <<"(", "S", "z", ".", ")">>, <<"J", "n", " ", "1", ",", "2">>}

\* arguments text of get_first_letters
Texts == {Flatten(ps) : ps \in SeqsUpTo(TextPieces, MaxPieces)}

-----------------------------------------------------------------------------
(* Direct calls of the unit functions                                      *)

PipelineIdle ==
    /\ pc = "idle"
    /\ text = <<>>
    /\ remove_verses = TRUE
    /\ remove_refs = TRUE
    /\ merged = <<>>
    /\ sentences = <<>>
    /\ idx = 0
    /\ sentence = <<>>
    /\ result_lines = <<>>
    /\ output = <<>>

pipelineVars == <<pc, text, remove_verses, remove_refs, merged, sentences,
                  idx, sentence, result_lines, output>>

InitWord ==
    /\ fn = ""
    /\ arg \in Words
    /\ ret = <<>>
    /\ PipelineIdle

CallFirstLetterOrDigraph ==
    /\ fn = ""
    /\ fn' = "first_letter_or_digraph"
    /\ ret' = first_letter_or_digraph(arg)
    /\ UNCHANGED <<arg, pipelineVars>>

NextWord == CallFirstLetterOrDigraph

SpecWord == InitWord /\ [][NextWord]_vars

InitVerse ==
    /\ fn = ""
    /\ arg \in VerseLines
    /\ ret = <<>>
    /\ PipelineIdle

CallRemoveVerseNumbers ==
    /\ fn = ""
    /\ fn' = "remove_verse_numbers"
    /\ ret' = remove_verse_numbers(arg)
    /\ UNCHANGED <<arg, pipelineVars>>

NextVerse == CallRemoveVerseNumbers

SpecVerse == InitVerse /\ [][NextVerse]_vars

InitRefs ==
    /\ fn = ""
    /\ arg \in RefLines
    /\ ret = <<>>
    /\ PipelineIdle

CallRemoveReferences ==
    /\ fn = ""
    /\ fn' = "remove_references"
    /\ ret' = remove_references(arg)
    /\ UNCHANGED <<arg, pipelineVars>>

NextRefs == CallRemoveReferences

SpecRefs == InitRefs /\ [][NextRefs]_vars

InitAbbrev ==
    /\ fn = ""
    /\ arg \in AbbrevLines
    /\ ret = <<>>
    /\ PipelineIdle

CallFirstLettersForLine ==
    /\ fn = ""
    /\ fn' = "_first_letters_for_line"
    /\ ret' = first_letters_for_line(arg)
    /\ UNCHANGED <<arg, pipelineVars>>

NextAbbrev == CallFirstLettersForLine

SpecAbbrev == InitAbbrev /\ [][NextAbbrev]_vars

-----------------------------------------------------------------------------
(* get_first_letters, statement by statement                               *)

Init ==
    /\ fn = ""
    /\ arg = <<>>
    /\ ret = <<>>
    /\ pc = "merge"
    /\ text \in Texts
    /\ remove_verses \in BOOLEAN
    /\ remove_refs \in BOOLEAN
    /\ merged = <<>>
    /\ sentences = <<>>
    /\ idx = 0
    /\ sentence = <<>>
    /\ result_lines = <<>>
    /\ output = <<>>

callVars == <<fn, arg, ret>>

\* line 85
Merge ==
    /\ pc = "merge"
    /\ merged' = MergeLines(Strip(text), 1)
    /\ pc' = "split"
    /\ UNCHANGED <<callVars, text, remove_verses, remove_refs, sentences, idx,
                   sentence, result_lines, output>>

\* lines 86-87
Split ==
    /\ pc = "split"
    /\ sentences' = SENTENCE_SPLIT_RE(merged, 1, <<>>)
    /\ result_lines' = <<>>
    /\ idx' = 1
    /\ pc' = "loop"
    /\ UNCHANGED <<callVars, text, remove_verses, remove_refs, merged, sentence,
                   output>>

\* lines 89-92: the next sentence, stripped; a blank one is skipped
NextSentence ==
    /\ pc = "loop"
    /\ idx <= Len(sentences)
    /\ sentence' = Strip(sentences[idx])
    /\ IF sentence' = <<>>
       THEN idx' = idx + 1 /\ pc' = "loop"
       ELSE idx' = idx /\ pc' = "verses"
    /\ UNCHANGED <<callVars, text, remove_verses, remove_refs, merged, sentences,
                   result_lines, output>>

\* lines 93-94
VerseStep ==
    /\ pc = "verses"
    /\ sentence' = IF remove_verses THEN remove_verse_numbers(sentence) ELSE sentence
    /\ pc' = "refs"
    /\ UNCHANGED <<callVars, text, remove_verses, remove_refs, merged, sentences,
                   idx, result_lines, output>>

\* lines 95-96
RefStep ==
    /\ pc = "refs"
    /\ sentence' = IF remove_refs THEN remove_references(sentence) ELSE sentence
    /\ pc' = "abbreviate"
    /\ UNCHANGED <<callVars, text, remove_verses, remove_refs, merged, sentences,
                   idx, result_lines, output>>

\* lines 97-99: a sentence the cleanup left blank is skipped
Abbreviate ==
    /\ pc = "abbreviate"
    /\ result_lines' = IF sentence = <<>> THEN result_lines
                       ELSE Append(result_lines, first_letters_for_line(sentence))
    /\ idx' = idx + 1
    /\ pc' = "loop"
    /\ UNCHANGED <<callVars, text, remove_verses, remove_refs, merged, sentences,
                   sentence, output>>

\* a plausible slip: every line is written with a newline after it
ReturnEachLineTerminated ==
    /\ pc = "loop"
    /\ idx > Len(sentences)
    /\ output' = Flatten([i \in 1..Len(SelectSeq(result_lines, LAMBDA r : r # <<>>)) |->
                            SelectSeq(result_lines, LAMBDA r : r # <<>>)[i] \o <<"\n">>])
    /\ pc' = "done"
    /\ UNCHANGED <<callVars, text, remove_verses, remove_refs, merged, sentences,
                   idx, sentence, result_lines>>

\* line 101
Return ==
    /\ pc = "loop"
    /\ idx > Len(sentences)
    /\ output' = Join(<<"\n">>, SelectSeq(result_lines, LAMBDA r : r # <<>>))
    /\ pc' = "done"
    /\ UNCHANGED <<callVars, text, remove_verses, remove_refs, merged, sentences,
                   idx, sentence, result_lines>>

Next ==
    \/ Merge
    \/ Split
    \/ NextSentence
    \/ VerseStep
    \/ RefStep
    \/ Abbreviate
    \/ Return

Spec == Init /\ [][Next]_vars

-----------------------------------------------------------------------------
(* C1 *)

\* w starts, case-insensitively, with the two characters x, y
StartsWithPairCI(w, x, y) ==
    /\ Len(w) >= 2
    /\ w[1] \in {x, UpperSeq[CHOOSE i \in 1..26 : LowerSeq[i] = x]}
    /\ w[2] \in {y, UpperSeq[CHOOSE i \in 1..26 : LowerSeq[i] = y]}

StartsWithClaimDigraph(w) ==
    \/ StartsWithPairCI(w, "c", "s")
    \/ StartsWithPairCI(w, "g", "y")
    \/ StartsWithPairCI(w, "l", "y")
    \/ StartsWithPairCI(w, "n", "y")
    \/ StartsWithPairCI(w, "s", "z")
    \/ StartsWithPairCI(w, "t", "y")
    \/ StartsWithPairCI(w, "z", "s")

\* C1: for a non-empty word, first_letter_or_digraph returns the first two
\* characters in their original case when the word starts, ignoring case,
\* with one of cs, gy, ly, ny, sz, ty, zs, and the first character alone,
\* in its original case, otherwise.
C1_FirstUnit ==
    (fn = "first_letter_or_digraph" /\ arg # <<>>) =>
        IF StartsWithClaimDigraph(arg)
        THEN ret = <<arg[1], arg[2]>>
        ELSE ret = <<arg[1]>>

\* a word that starts with a digraph in mixed case has been abbreviated
C1_Witness ==
    /\ fn = "first_letter_or_digraph"
    /\ arg = <<"S", "z", "a">>
    /\ ret = <<"S", "z">>

-----------------------------------------------------------------------------
(* C2 *)

\* C2: remove_verse_numbers is idempotent: applied to its own result it
\* returns that result, also for lines that begin with several numbers.
C2_VerseIdempotent ==
    fn = "remove_verse_numbers" => remove_verse_numbers(ret) = ret

-----------------------------------------------------------------------------
(* C3 *)

\* C3: remove_references is idempotent: applied to its own result it returns
\* that result, also when deleting a citation leaves a word next to a
\* following 'number,number' locator.
C3_RefsIdempotent ==
    fn = "remove_references" => remove_references(ret) = ret

-----------------------------------------------------------------------------
(* C4 *)

\* the punctuation token of s that starts at position i
PunctTokenAt(s, i) == SubSeq(s, i, i + SpanNot(s, i, WordChar \cup Space) - 1)

\* C4: in the abbreviator's output no space is followed by a punctuation
\* token made only of '.', ',', '!' and '?' (one or several of them): such
\* a token is attached directly to the token before it.
C4_NoSpaceBeforePunct ==
    fn = "_first_letters_for_line" =>
        \A i \in 1..(Len(ret) - 1) :
            ret[i] = " " =>
                \/ PunctTokenAt(ret, i + 1) = <<>>
                \/ \E k \in 1..Len(PunctTokenAt(ret, i + 1)) :
                       PunctTokenAt(ret, i + 1)[k] \notin {".", ",", "!", "?"}

-----------------------------------------------------------------------------
(* C5 *)

\* text has no digit and no parenthesis (so no verse number, no reference)
PlainText(t) == \A i \in 1..Len(t) : t[i] \notin Digit \cup {"(", ")"}

\* the tokens the claim expects in the output: those of the input, in order,
\* each word token abbreviated, each punctuation token as it is
ExpectedTokens(t) ==
    LET ts == FindTokens(t, 1)
    IN  [i \in 1..Len(ts) |->
            IF ts[i][1] \in WordChar
            THEN Join(<<"-">>, [k \in 1..Len(SplitHyphen(ts[i], 1, <<>>)) |->
                                   first_letter_or_digraph(SplitHyphen(ts[i], 1, <<>>)[k])])
            ELSE ts[i]]

\* in s a punctuation token that is a substring of '.!?,' comes directly
\* after another punctuation token
AttachesToPunct(s) ==
    LET ts == FindTokens(s, 1)
    IN  \E i \in 1..(Len(ts) - 1) :
            /\ ts[i][1] \notin WordChar
            /\ ts[i + 1][1] \notin WordChar
            /\ \E k \in 0..(4 - Len(ts[i + 1])) :
                   SubSeq(<<".", "!", "?", ",">>, k + 1, k + Len(ts[i + 1])) = ts[i + 1]

\* C5 as stated: for text without digits, references and parentheses the
\* output has the input's tokens, in order, words abbreviated and
\* punctuation unchanged, also when two punctuation tokens are separated
\* only by whitespace.
C5_TokensKept_Original ==
    (pc = "done" /\ PlainText(text)) =>
        FindTokens(output, 1) = ExpectedTokens(text)

\* C5 (amended): the same, for text in which no sentence has a punctuation
\* token that is a substring of '.!?,' directly after another punctuation
\* token; there the two are written without a space and read as one token.
C5_TokensKept ==
    (/\ pc = "done"
     /\ PlainText(text)
     /\ \A k \in 1..Len(sentences) : ~AttachesToPunct(sentences[k])) =>
        FindTokens(output, 1) = ExpectedTokens(text)

\* a plain text of two sentences, with words and punctuation, is summarized
C5_Witness ==
    /\ pc = "done"
    /\ PlainText(text)
    /\ \A k \in 1..Len(sentences) : ~AttachesToPunct(sentences[k])
    /\ Len(sentences) >= 2
    /\ Len(FindTokens(output, 1)) >= 3
    /\ \E i \in 1..Len(output) : output[i] \in WordChar

-----------------------------------------------------------------------------
(* C6 *)

\* the number of positions of s where '.', '!' or '?' is followed by whitespace
Boundaries(s) ==
    Cardinality({i \in 1..(Len(s) - 1) : s[i] \in Terminal /\ s[i + 1] \in Space})

\* C6 as stated: a text with n positions where a terminal character is
\* followed by whitespace gives n + 1 raw segments, trailing whitespace after
\* a terminal character included.
C6_SegmentCount_Original ==
    pc \in {"loop", "verses", "refs", "abbreviate", "done"} =>
        Len(sentences) = Boundaries(text) + 1

\* C6 (amended): a text that has n such positions once its leading and
\* trailing whitespace is stripped gives n + 1 raw segments.
C6_SegmentCount ==
    pc \in {"loop", "verses", "refs", "abbreviate", "done"} =>
        Len(sentences) = Boundaries(Strip(text)) + 1

\* a text that ends in a terminal character and whitespace, and has a
\* boundary inside, has been segmented
C6_Witness ==
    /\ pc = "loop"
    /\ Len(text) >= 2
    /\ text[Len(text) - 1] \in Terminal
    /\ text[Len(text)] \in Space
    /\ Boundaries(Strip(text)) >= 1
    /\ Len(sentences) >= 2

-----------------------------------------------------------------------------
(* C7 *)

\* prose: letters and spaces, beginning and ending with a letter
IsProse(s) ==
    /\ s # <<>>
    /\ \A i \in 1..Len(s) : s[i] \in RefLetter \cup {" "}
    /\ s[1] # " "
    /\ s[Len(s)] # " "

\* line is '<prose>; <digits> <prose>' with the semicolon at i and the
\* space that ends the digits at j
IsSemicolonVerse(line, i, j) ==
    /\ line[i] = ";"
    /\ line[i + 1] = " "
    /\ j > i + 2
    /\ \A k \in (i + 2)..(j - 1) : line[k] \in Digit
    /\ line[j] = " "
    /\ IsProse(SubSeq(line, 1, i - 1))
    /\ IsProse(From(line, j + 1))

\* C7: remove_verse_numbers turns '<prose>; <digits> <prose>' into
\* '<prose>; <prose>': the verse number after the semicolon is removed.
C7_VerseAfterSemicolon ==
    fn = "remove_verse_numbers" =>
        \A i \in 2..(Len(arg) - 1) : \A j \in (i + 3)..(Len(arg) - 1) :
            IsSemicolonVerse(arg, i, j) =>
                ret = SubSeq(arg, 1, i + 1) \o From(arg, j + 1)

-----------------------------------------------------------------------------
(* C8 *)

\* C8: a pause marker '(Sz.)' anywhere in the text leaves nothing in the
\* output: no parenthesis of it is ever part of the summary.
C8_PauseMarkerRemoved ==
    pc = "done" => \A i \in 1..Len(output) : output[i] \notin {"(", ")"}

-----------------------------------------------------------------------------
(* C9 *)

\* C9: for prose followed by a citation list whose items are joined by ';',
\* remove_references returns the prose alone (a colon before the list kept).
C9_CitationListRemoved ==
    fn = "remove_references" =>
        \A p \in RefProse : \A items \in CitationLists :
            arg = p \o <<" ">> \o Join(<<";", " ">>, items) => ret = p

-----------------------------------------------------------------------------
(* C10 *)

\* the word tokens of a line, in order
WordTokensOf(line) ==
    SelectSeq(FindTokens(line, 1), LAMBDA t : t[1] \in WordChar)

\* C10: every word token of the line with k hyphen-separated segments comes
\* out as k first-letter units joined by k - 1 hyphens, token by token.
C10_HyphenSegmentsKept ==
    fn = "_first_letters_for_line" =>
        LET wa == WordTokensOf(arg)
            wr == WordTokensOf(ret)
        IN  /\ Len(wr) = Len(wa)
            /\ \A t \in 1..Len(wa) :
                   LET sa == SplitHyphen(wa[t], 1, <<>>)
                       sr == SplitHyphen(wr[t], 1, <<>>)
                   IN  /\ Len(sr) = Len(sa)
                       /\ \A k \in 1..Len(sa) :
                              /\ sa[k] # <<>>
                              /\ sr[k] = first_letter_or_digraph(sa[k])

\* a token of three segments, one of them a digraph, has been abbreviated
C10_Witness ==
    /\ fn = "_first_letters_for_line"
    /\ arg = <<"a", "-", "s", "z", "-", "z", "s", "a">>
    /\ ret = <<"a", "-", "s", "z", "-", "z", "s">>

-----------------------------------------------------------------------------
(* C11 *)

\* the sentence as the claim's order of passes leaves it: references
\* stripped first, verse numbers after
RefsThenVerses(raw) == remove_verse_numbers(remove_references(raw))

\* raw does not begin with a verse number, but does once its citations are
\* deleted
VerseNumberBehindCitation(raw) ==
    /\ VERSE_NUMBER_RE(raw) < 0
    /\ VERSE_NUMBER_RE(remove_references(raw)) >= 0

\* C11: with the default options each sentence is cleaned by reference
\* stripping first and verse-number stripping after it, then abbreviated; so
\* a verse number that becomes the start of the sentence only when a leading
\* citation is deleted is removed too and is not in the output.
C11_RefsBeforeVerses ==
    /\ (pc = "abbreviate" /\ remove_verses /\ remove_refs) =>
           sentence = RefsThenVerses(Strip(sentences[idx]))
    /\ (/\ pc = "done"
        /\ remove_verses
        /\ remove_refs
        /\ Len(sentences) = 1
        /\ VerseNumberBehindCitation(Strip(sentences[1]))) =>
           output = IF RefsThenVerses(Strip(sentences[1])) = <<>> THEN <<>>
                    ELSE first_letters_for_line(RefsThenVerses(Strip(sentences[1])))

-----------------------------------------------------------------------------
(* C12 *)

\* s.split("\n"): the lines of s, cur the line being read
RECURSIVE LinesOf(_, _, _)
LinesOf(s, pos, cur) ==
    IF pos > Len(s) THEN <<cur>>
    ELSE IF s[pos] = "\n"
         THEN <<cur>> \o LinesOf(s, pos + 1, <<>>)
         ELSE LinesOf(s, pos + 1, Append(cur, s[pos]))

\* the cleanup of one raw segment under the options rv (remove_verses) and
\* rr (remove_refs)
Cleaned(raw, rv, rr) ==
    LET stripped == Strip(raw)
        v        == IF rv THEN remove_verse_numbers(stripped) ELSE stripped
    IN  IF rr THEN remove_references(v) ELSE v

\* the abbreviations of the segments ss[k..] that are not blank after
\* cleanup, in order
RECURSIVE AbbreviationsFrom(_, _, _, _)
AbbreviationsFrom(ss, k, rv, rr) ==
    IF k > Len(ss) THEN <<>>
    ELSE (IF Cleaned(ss[k], rv, rr) = <<>> THEN <<>>
          ELSE <<first_letters_for_line(Cleaned(ss[k], rv, rr))>>)
         \o AbbreviationsFrom(ss, k + 1, rv, rr)

\* C12: get_first_letters returns the abbreviations of the sentences that
\* are not blank after cleanup, in input order, one per line: no line of the
\* output is empty, the output neither begins nor ends with a newline, it has
\* at most as many lines as there are raw segments, and it is the empty
\* string when no sentence yields output.
C12_OutputLines ==
    pc = "done" =>
        LET want == AbbreviationsFrom(sentences, 1, remove_verses, remove_refs)
        IN  /\ (want = <<>>) <=> (output = <<>>)
            /\ output # <<>> =>
                   /\ LinesOf(output, 1, <<>>) = want
                   /\ \A i \in 1..Len(LinesOf(output, 1, <<>>)) :
                          LinesOf(output, 1, <<>>)[i] # <<>>
                   /\ output[1] # "\n"
                   /\ output[Len(output)] # "\n"
                   /\ Len(LinesOf(output, 1, <<>>)) <= Len(sentences)

\* a text of two sentences, both with content after cleanup, has been
\* summarized in two lines
C12_Witness ==
    /\ pc = "done"
    /\ Len(sentences) = 2
    /\ Len(AbbreviationsFrom(sentences, 1, remove_verses, remove_refs)) = 2
    /\ \E i \in 1..Len(output) : output[i] = "\n"

====
